---- MODULE Spec2Model ----
(***************************************************************************)
(* The document store of the university assistant service (src/main.py):   *)
(* the datasets loaded from the configured JSON files at startup, the get, *)
(* list, chat and update handlers, and the JSON text written to and read   *)
(* from the backing files.                                                 *)
(***************************************************************************)
EXTENDS Integers, Sequences, FiniteSets, TLC

\* ------------------------------------------------------------------ bounds
MaxUpdates == 2
NumRequests == 2

\* ----------------------------------------------------------- configuration
\* The keys of DATA_FILES, in the order the dictionary literal lists them.
DATA_FILES_keys ==
    << "academic_deadlines", "course_information", "student_service_support",
       "library_books_list", "transport_service", "paper_recheck" >>

DATA_NAMES == { DATA_FILES_keys[i] : i \in 1..Len(DATA_FILES_keys) }

\* DATA_FILES[name]: the file of a configured dataset (its name under JSON_DIR).
DATA_FILES(name) ==
    CASE name = "academic_deadlines" -> "academic_deadlines.json"
      [] name = "course_information" -> "course_information.json"
      [] name = "student_service_support" -> "student_support.json"
      [] name = "library_books_list" -> "library_books.json"
      [] name = "transport_service" -> "transport_service.json"
      [] name = "paper_recheck" -> "paper_recheck.json"

PATHS == { DATA_FILES(n) : n \in DATA_NAMES }

\* A name no dataset is configured under.
UNCONFIGURED == "nonexistent_dataset"

\* The names requests ask for: a dataset that holds an object, one that holds
\* an array, one that holds a string, and an unconfigured name.
REQUEST_NAMES ==
    { "academic_deadlines", "library_books_list", "transport_service", UNCONFIGURED }

\* ------------------------------------------------------------- JSON values
\* A JSON value is a string, an object (its members in insertion order, as
\* a Python dict keeps them) or an array.  Members of an object are strings;
\* elements of an array are strings or objects.
Str(s) == [t |-> "str", s |-> s, kv |-> <<>>, el |-> <<>>]
Obj(kv) == [t |-> "obj", s |-> "", kv |-> kv, el |-> <<>>]
Arr(el) == [t |-> "arr", s |-> "", kv |-> <<>>, el |-> el]
EmptyObj == Obj(<<>>)

Keys(kv) == { kv[i][1] : i \in 1..Len(kv) }
HasKey(kv, k) == k \in Keys(kv)
Lookup(kv, k) == kv[CHOOSE i \in 1..Len(kv) : kv[i][1] = k][2]

\* d[k] = v on a dict: an existing key keeps its position, a new one is added
\* at the end.
DictSet(kv, k, v) ==
    IF HasKey(kv, k)
    THEN [i \in 1..Len(kv) |-> IF kv[i][1] = k THEN <<k, v>> ELSE kv[i]]
    ELSE Append(kv, <<k, v>>)

\* dict.update that keeps the value of a key the dict already has.
RECURSIVE dict_update_keep_old(_, _)
dict_update_keep_old(kv, patch) ==
    IF patch = <<>> THEN kv
    ELSE dict_update_keep_old(
             IF HasKey(kv, Head(patch)[1]) THEN kv
             ELSE Append(kv, Head(patch)),
             Tail(patch))

\* dict.update(new_data): the members of new_data are set one by one.
RECURSIVE dict_update(_, _)
dict_update(kv, patch) ==
    IF patch = <<>> THEN kv
    ELSE dict_update(DictSet(kv, Head(patch)[1], Head(patch)[2]), Tail(patch))

\* --------------------------------------------------------------- JSON text
\* The text of a file is a sequence of tokens: punctuation, string literals
\* and the newline-plus-indentation that json.dump(indent=n) puts out.
Punct(c) == [k |-> "punct", s |-> c, n |-> 0]
Lit(s) == [k |-> "str", s |-> s, n |-> 0]
NewLine(n) == [k |-> "nl", s |-> "", n |-> n]

RECURSIVE DumpMembers(_, _, _)
DumpMembers(kv, indent, level) ==
    IF kv = <<>> THEN <<>>
    ELSE << NewLine(indent * level), Lit(kv[1][1]), Punct(":"), Lit(kv[1][2]) >>
         \o (IF Len(kv) > 1 THEN <<Punct(",")>> ELSE <<>>)
         \o DumpMembers(Tail(kv), indent, level)

DumpObj(kv, indent, level) ==
    IF kv = <<>> THEN << Punct("{"), Punct("}") >>
    ELSE <<Punct("{")>> \o DumpMembers(kv, indent, level + 1)
         \o << NewLine(indent * level), Punct("}") >>

DumpElement(e, indent, level) ==
    IF e.t = "str" THEN <<Lit(e.s)>> ELSE DumpObj(e.kv, indent, level)

RECURSIVE DumpElements(_, _, _)
DumpElements(el, indent, level) ==
    IF el = <<>> THEN <<>>
    ELSE << NewLine(indent * level) >> \o DumpElement(el[1], indent, level)
         \o (IF Len(el) > 1 THEN <<Punct(",")>> ELSE <<>>)
         \o DumpElements(Tail(el), indent, level)

\* json.dumps(v, indent=indent)
json_dumps(v, indent) ==
    CASE v.t = "str" -> <<Lit(v.s)>>
      [] v.t = "obj" -> DumpObj(v.kv, indent, 0)
      [] v.t = "arr" ->
            IF v.el = <<>> THEN << Punct("["), Punct("]") >>
            ELSE <<Punct("[")>> \o DumpElements(v.el, indent, 1)
                 \o << NewLine(0), Punct("]") >>

\* The decoder skips whitespace between tokens.
RECURSIVE SkipWhitespace(_)
SkipWhitespace(text) ==
    IF text = <<>> THEN <<>>
    ELSE IF Head(text).k = "nl" THEN SkipWhitespace(Tail(text))
    ELSE <<Head(text)>> \o SkipWhitespace(Tail(text))

IsPunct(toks, i, c) == i <= Len(toks) /\ toks[i] = Punct(c)
IsLit(toks, i) == i <= Len(toks) /\ toks[i].k = "str"

ParseFail == [ok |-> FALSE, v |-> EmptyObj, next |-> 0]

\* The members of an object from token i on, up to its closing brace; a key
\* met twice keeps its last value.
RECURSIVE ParseMembers(_, _, _)
ParseMembers(toks, i, acc) ==
    IF IsLit(toks, i) /\ IsPunct(toks, i + 1, ":") /\ IsLit(toks, i + 2)
    THEN LET acc2 == DictSet(acc, toks[i].s, toks[i + 2].s)
         IN IF IsPunct(toks, i + 3, ",") THEN ParseMembers(toks, i + 4, acc2)
            ELSE IF IsPunct(toks, i + 3, "}")
                 THEN [ok |-> TRUE, v |-> Obj(acc2), next |-> i + 4]
                 ELSE ParseFail
    ELSE ParseFail

ParseObj(toks, i) ==
    IF IsPunct(toks, i + 1, "}") THEN [ok |-> TRUE, v |-> EmptyObj, next |-> i + 2]
    ELSE ParseMembers(toks, i + 1, <<>>)

RECURSIVE ParseElements(_, _, _)
ParseElements(toks, i, acc) ==
    LET e == IF IsLit(toks, i)
             THEN [ok |-> TRUE, v |-> Str(toks[i].s), next |-> i + 1]
             ELSE IF IsPunct(toks, i, "{") THEN ParseObj(toks, i)
             ELSE ParseFail
    IN IF ~e.ok THEN ParseFail
       ELSE IF IsPunct(toks, e.next, ",")
            THEN ParseElements(toks, e.next + 1, Append(acc, e.v))
       ELSE IF IsPunct(toks, e.next, "]")
            THEN [ok |-> TRUE, v |-> Arr(Append(acc, e.v)), next |-> e.next + 1]
       ELSE ParseFail

ParseArr(toks, i) ==
    IF IsPunct(toks, i + 1, "]") THEN [ok |-> TRUE, v |-> Arr(<<>>), next |-> i + 2]
    ELSE ParseElements(toks, i + 1, <<>>)

\* json.load(f): the value of the text, or a failure (JSONDecodeError) when
\* the text is no JSON document or has data after the document.
json_load(text) ==
    LET toks == SkipWhitespace(text)
        r == IF IsLit(toks, 1) THEN [ok |-> TRUE, v |-> Str(toks[1].s), next |-> 2]
             ELSE IF IsPunct(toks, 1, "{") THEN ParseObj(toks, 1)
             ELSE IF IsPunct(toks, 1, "[") THEN ParseArr(toks, 1)
             ELSE ParseFail
    IN IF r.ok /\ r.next = Len(toks) + 1 THEN r ELSE ParseFail


\* ------------------------------------------------------------------- state
VARIABLES
    data,          \* the in-memory store: dataset name -> value
    files,         \* the disk: path -> [exists, text]
    XAI_API_KEY,   \* TRUE when the environment sets the upstream API key
    last,          \* the last request served and its response
    pre,           \* data and files as they were when that request arrived
    nupdates,      \* update requests that reached the handler so far
    tasks,         \* update requests in flight on the event loop
    loop           \* the request whose handler the event loop is running, or 0

vars == << data, files, XAI_API_KEY, last, pre, nupdates, tasks, loop >>

Missing == [exists |-> FALSE, text |-> <<>>]
File(text) == [exists |-> TRUE, text |-> text]

\* ------------------------------------------------------------------ inputs
OBJ_1 == Obj(<< <<"midterm", "Oct 10">>, <<"final", "Dec 1">> >>)
ARR_1 == Arr(<< Str("Algorithms") >>)
\* An interrupted text: an object that was never closed.
CORRUPT_TEXT == << Punct("{"), NewLine(4), Lit("midterm") >>

\* What the file of a dataset may hold when the process starts.
InitialFiles(name) ==
    CASE name = "academic_deadlines" ->
            { File(json_dumps(OBJ_1, 4)), Missing, File(CORRUPT_TEXT) }
      [] name = "library_books_list" ->
            { File(json_dumps(ARR_1, 4)) }
      [] name = "transport_service" -> { File(json_dumps(Str("Bus"), 4)) }
      [] name = "paper_recheck" -> { Missing }
      [] OTHER -> { File(json_dumps(EmptyObj, 4)) }

\* The new_data of an update request body, as the JSON the client sent.
OBJ_PATCH == Obj(<< <<"final", "Dec 15">>, <<"quiz", "Nov 2">> >>)
ARR_PATCH == Arr(<< Str("Compilers"), Str("Networks") >>)
OBJ_PATCH_2 == Obj(<< <<"midterm", "Oct 12">> >>)
REQUEST_PATCHES == { OBJ_PATCH, OBJ_PATCH_2, ARR_PATCH, Str("Databases") }

WRITE_OUTCOMES == { "ok", "open_fail", "dump_fail" }

\* Where a failing json.dump may stop, short of the whole text: before its
\* first token, after it, or before its last one.
DumpFailPoints(full) == { n \in {0, 1, Len(full) - 1} : n < Len(full) }

\* ------------------------------------------------------------- load_data
Loadable(file) == file.exists /\ json_load(file.text).ok

\* One round of the loop of load_data: the parsed file, or {} when the file
\* is missing or json.load raises.
LoadOne(file) == IF Loadable(file) THEN json_load(file.text).v ELSE EmptyObj

\* load_data that leaves out a dataset whose file did not load.
load_data_skip_failed(disk) ==
    [key \in { k \in DATA_NAMES : Loadable(disk[DATA_FILES(k)]) }
        |-> LoadOne(disk[DATA_FILES(key)])]

load_data(disk) == [key \in DATA_NAMES |-> LoadOne(disk[DATA_FILES(key)])]

\* ------------------------------------------------------------- responses
NoValue == Str("")
Response(op, name, patch, write, status, body, names, context) ==
    [op |-> op, name |-> name, patch |-> patch, write |-> write,
     status |-> status, body |-> body, names |-> names, context |-> context]

Snapshot == [data |-> data, files |-> files]

\* ---------------------------------------------------------------- get_data
\* get_data that answers an unknown name with an empty object.
get_data_default(file_name) ==
    IF file_name \in DOMAIN data
    THEN [status |-> 200, body |-> data[file_name]]
    ELSE [status |-> 200, body |-> EmptyObj]

get_data(file_name) ==
    IF file_name \in DOMAIN data
    THEN [status |-> 200, body |-> data[file_name]]
    ELSE [status |-> 404, body |-> NoValue]

Get(file_name) ==
    /\ last' = Response("get", file_name, NoValue, "", get_data(file_name).status,
                        get_data(file_name).body, <<>>, <<>>)
    /\ pre' = Snapshot
    /\ UNCHANGED << data, files, XAI_API_KEY, nupdates, tasks, loop >>

\* ------------------------------------------------------ get_available_files
get_available_files == DATA_FILES_keys

List ==
    /\ last' = Response("list", "", NoValue, "", 200, NoValue,
                        get_available_files, <<>>)
    /\ pre' = Snapshot
    /\ UNCHANGED << data, files, XAI_API_KEY, nupdates, tasks, loop >>

\* -------------------------------------------------- create_context_message
\* data_sections: the title and the dataset of each section, in the order of
\* the dictionary literal.
data_sections ==
    << <<"Academic Deadlines", "academic_deadlines">>,
       <<"Course Information", "course_information">>,
       <<"Student Support", "student_service_support">>,
       <<"Library Books", "library_books_list">>,
       <<"Transport Services", "transport_service">>,
       <<"Paper Recheck", "paper_recheck">> >>

Part(title, text) == [title |-> title, text |-> text]
CONTEXT_HEADER == Part("You are an AI assistant for our university. Use ONLY the following information to answer queries:", <<>>)
CONTEXT_RULES == Part("Rules: 1. Use ONLY above data 2. If you don't have the information, say 'Please Contact with your Academic Advisor' 3. Quote exact dates/times 4. Be direct and precise", <<>>)

\* Building data_sections raises KeyError when the store lacks a name.
ContextKeyError == \E i \in 1..Len(data_sections) : data_sections[i][2] \notin DOMAIN data

\* create_context_message that renders what the files hold.
create_context_message_from_disk ==
    <<CONTEXT_HEADER>>
    \o [i \in 1..Len(data_sections) |->
           Part(data_sections[i][1],
                json_dumps(LoadOne(files[DATA_FILES(data_sections[i][2])]), 2))]
    \o <<CONTEXT_RULES>>

create_context_message ==
    <<CONTEXT_HEADER>>
    \o [i \in 1..Len(data_sections) |->
           Part(data_sections[i][1], json_dumps(data[data_sections[i][2]], 2))]
    \o <<CONTEXT_RULES>>

\* -------------------------------------------------------------------- chat
\* keyword: the message holds "exam", "deadline" or "date"; upstream_ok: the
\* completion call and its stream went through.
chat(keyword, upstream_ok) ==
    IF ~XAI_API_KEY THEN [status |-> 500, context |-> <<>>]
    ELSE IF ContextKeyError THEN [status |-> 500, context |-> <<>>]
    ELSE IF ~upstream_ok THEN [status |-> 500, context |-> create_context_message]
    ELSE IF keyword /\ data["academic_deadlines"].t # "obj"
         THEN [status |-> 500, context |-> create_context_message]
    ELSE [status |-> 200, context |-> create_context_message]

Chat(keyword, upstream_ok) ==
    /\ last' = Response("chat", "", NoValue, "", chat(keyword, upstream_ok).status,
                        NoValue, <<>>, chat(keyword, upstream_ok).context)
    /\ pre' = Snapshot
    /\ UNCHANGED << data, files, XAI_API_KEY, nupdates, tasks, loop >>


\* ------------------------------------------------------------- update_data
\* UpdateRequest: pydantic takes a body whose new_data is a JSON object and
\* answers any other body with 422 before the handler runs.
UpdateRequest_valid(new_data) == new_data.t = "obj"

\* The in-memory merge of lines 167-173.
merge(current, new_data) ==
    IF current.t = "obj" THEN Obj(dict_update(current.kv, new_data.kv))
    ELSE IF current.t = "arr"
         THEN IF new_data.t = "arr" THEN Arr(current.el \o new_data.el)
              ELSE Arr(Append(current.el, new_data))
    ELSE current

\* open(file_path, 'a'): the file keeps its content and is written at its end.
open_a(file) == [text |-> file.text, pos |-> Len(file.text)]

\* open(file_path, 'w'): the file is created or emptied, and written from
\* its start.
open_w(file) == [text |-> <<>>, pos |-> 0]

\* The text of a file after buf is written at position pos.
file_write(text, pos, buf) ==
    SubSeq(text, 1, pos) \o buf \o SubSeq(text, pos + Len(buf) + 1, Len(text))

\* Lines 176-178: the file after the write; outcome says whether open raised,
\* json.dump raised after cut tokens, or the write went through.
WriteFile(file, value, outcome, cut) ==
    LET f == open_w(file)
        full == json_dumps(value, 4)
    IN CASE outcome = "open_fail" -> file
         [] outcome = "dump_fail" -> File(file_write(f.text, f.pos, SubSeq(full, 1, cut)))
         [] outcome = "ok" -> File(file_write(f.text, f.pos, full))

\* The path of the write taken from the first entry of DATA_FILES.
file_path_first(file_name) == DATA_FILES(DATA_FILES_keys[1])

\* Line 176: file_path = DATA_FILES[file_name]
file_path(file_name) == DATA_FILES(file_name)

\* Lines 185-186: whatever is raised inside the try, the HTTPException of
\* line 164 included, leaves as a 500.
update_data_except(raised_status) == 500

\* The store after an update whose write failed, had the handler taken the
\* merge back.
after_write_failure_rollback(merged, old) == old

\* The store after an update whose write failed: the merge stays.
after_write_failure(merged, old) == merged

Update(file_name, new_data, outcome) ==
    /\ nupdates < MaxUpdates
    /\ pre' = Snapshot
    /\ UNCHANGED << XAI_API_KEY, tasks, loop >>
    /\ IF ~UpdateRequest_valid(new_data)
       THEN /\ outcome = "ok"
            /\ last' = Response("update", file_name, new_data, "rejected", 422,
                                NoValue, <<>>, <<>>)
            /\ UNCHANGED << data, files, nupdates >>
       ELSE IF file_name \notin DOMAIN data
       THEN /\ outcome = "ok"
            /\ last' = Response("update", file_name, new_data, "none",
                                update_data_except(404), NoValue, <<>>, <<>>)
            /\ UNCHANGED << data, files, nupdates >>
       ELSE LET merged == merge(data[file_name], new_data)
                path == file_path(file_name)
            IN /\ data' = [data EXCEPT ![file_name] =
                              IF outcome = "ok" THEN merged
                              ELSE after_write_failure(merged, data[file_name])]
               /\ \E cut \in IF outcome = "dump_fail"
                                THEN DumpFailPoints(json_dumps(merged, 4))
                                ELSE {0} :
                      files' = [files EXCEPT ![path] =
                                   WriteFile(files[path], merged, outcome, cut)]
               /\ nupdates' = nupdates + 1
               /\ last' = IF outcome = "ok"
                          THEN Response("update", file_name, new_data, outcome, 200,
                                        merged, <<>>, <<>>)
                          ELSE Response("update", file_name, new_data, outcome,
                                        update_data_except(0), NoValue, <<>>, <<>>)

\* ------------------------------------------------------------ the service
IdleTask == [pc |-> "idle", name |-> "", patch |-> NoValue, pos |-> 0,
             buf |-> <<>>, failed |-> FALSE, status |-> 0]

AllInitialFiles == UNION { InitialFiles(n) : n \in DATA_NAMES }

Init ==
    /\ files \in [PATHS -> AllInitialFiles]
    /\ \A n \in DATA_NAMES : files[DATA_FILES(n)] \in InitialFiles(n)
    /\ data = load_data(files)
    /\ XAI_API_KEY \in BOOLEAN
    /\ last = Response("startup", "", NoValue, "", 0, NoValue, <<>>, <<>>)
    /\ pre = [data |-> data, files |-> files]
    /\ nupdates = 0
    /\ tasks = [r \in 1..NumRequests |-> IdleTask]
    /\ loop = 0

Next ==
    \/ \E file_name \in REQUEST_NAMES : Get(file_name)
    \/ List
    \/ \E keyword \in BOOLEAN, upstream_ok \in BOOLEAN : Chat(keyword, upstream_ok)
    \/ \E file_name \in REQUEST_NAMES, new_data \in REQUEST_PATCHES,
          outcome \in WRITE_OUTCOMES :
          Update(file_name, new_data, outcome)

Spec == Init /\ [][Next]_vars


\* ---------------------------------------------- update_data, step by step
\* The update handler as the event loop runs it: requests wait until the loop
\* is free, and the handler of one request then runs line by line.
REQUESTS == 1..NumRequests
LOOP_NAMES == { "academic_deadlines", "library_books_list" }
LOOP_PATCHES == { OBJ_PATCH, OBJ_PATCH_2 }
MID_HANDLER == { "merge", "open", "dump", "close", "return" }

\* A handler that runs on a thread of its own (a plain def handler): it may
\* start and go on whatever the other handlers are doing.
thread_pool_runs(r, starting) == TRUE

\* update_data is an async def without an await: the event loop starts a
\* handler only when it runs no other, and runs it to its end.
event_loop_runs(r, starting) == IF starting THEN loop = 0 ELSE loop = r

SetTask(r, task) == tasks' = [tasks EXCEPT ![r] = task]
Finish(r, status) == [tasks[r] EXCEPT !.pc = "done", !.status = status]

\* The request is read and validated; it waits for the loop.
Arrive(r, file_name, new_data) ==
    /\ tasks[r].pc = "idle"
    /\ UpdateRequest_valid(new_data)
    /\ SetTask(r, [IdleTask EXCEPT !.pc = "pending", !.name = file_name,
                                   !.patch = new_data])
    /\ UNCHANGED << data, files, XAI_API_KEY, last, pre, nupdates, loop >>

\* Lines 160-164: the handler starts and looks the name up.
Begin(r) ==
    /\ tasks[r].pc = "pending"
    /\ event_loop_runs(r, TRUE)
    /\ IF tasks[r].name \notin DOMAIN data
       THEN SetTask(r, Finish(r, update_data_except(404))) /\ UNCHANGED loop
       ELSE SetTask(r, [tasks[r] EXCEPT !.pc = "merge"]) /\ loop' = r
    /\ UNCHANGED << data, files, XAI_API_KEY, last, pre, nupdates >>

\* Lines 167-173.
Merge(r) ==
    /\ tasks[r].pc = "merge"
    /\ event_loop_runs(r, FALSE)
    /\ data' = [data EXCEPT ![tasks[r].name] = merge(@, tasks[r].patch)]
    /\ SetTask(r, [tasks[r] EXCEPT !.pc = "open"])
    /\ UNCHANGED << files, XAI_API_KEY, last, pre, nupdates, loop >>

\* Line 177: open raises, or empties the file.
Open(r, ok) ==
    /\ tasks[r].pc = "open"
    /\ event_loop_runs(r, FALSE)
    /\ IF ok
       THEN LET f == open_w(files[file_path(tasks[r].name)])
            IN /\ files' = [files EXCEPT ![file_path(tasks[r].name)] = File(f.text)]
               /\ SetTask(r, [tasks[r] EXCEPT !.pc = "dump", !.pos = f.pos])
               /\ UNCHANGED loop
       ELSE /\ SetTask(r, Finish(r, update_data_except(0)))
            /\ loop' = 0
            /\ UNCHANGED files
    /\ UNCHANGED << data, XAI_API_KEY, last, pre, nupdates >>

\* Line 178: json.dump puts the text of the dataset, as it is now, into the
\* buffer of the file object, or raises part of the way.
Dump(r, ok) ==
    /\ tasks[r].pc = "dump"
    /\ event_loop_runs(r, FALSE)
    /\ LET full == json_dumps(data[tasks[r].name], 4)
       IN IF ok
          THEN SetTask(r, [tasks[r] EXCEPT !.pc = "close", !.buf = full])
          ELSE \E cut \in DumpFailPoints(full) :
                  SetTask(r, [tasks[r] EXCEPT !.pc = "close", !.failed = TRUE,
                                              !.buf = SubSeq(full, 1, cut)])
    /\ UNCHANGED << data, files, XAI_API_KEY, last, pre, nupdates, loop >>

\* The end of the with block: the buffer goes to the file, at the position of
\* the file object; a json.dump that raised leaves as a 500.
Close(r) ==
    /\ tasks[r].pc = "close"
    /\ event_loop_runs(r, FALSE)
    /\ files' = [files EXCEPT ![file_path(tasks[r].name)] =
                    File(file_write(@.text, tasks[r].pos, tasks[r].buf))]
    /\ IF tasks[r].failed
       THEN SetTask(r, Finish(r, update_data_except(0))) /\ loop' = 0
       ELSE SetTask(r, [tasks[r] EXCEPT !.pc = "return"]) /\ UNCHANGED loop
    /\ UNCHANGED << data, XAI_API_KEY, last, pre, nupdates >>

\* Lines 180-184.
Return(r) ==
    /\ tasks[r].pc = "return"
    /\ event_loop_runs(r, FALSE)
    /\ SetTask(r, Finish(r, 200))
    /\ loop' = 0
    /\ UNCHANGED << data, files, XAI_API_KEY, last, pre, nupdates >>

LoopNext ==
    \/ \E r \in REQUESTS, file_name \in LOOP_NAMES, new_data \in LOOP_PATCHES :
          Arrive(r, file_name, new_data)
    \/ \E r \in REQUESTS : Begin(r)
    \/ \E r \in REQUESTS : Merge(r)
    \/ \E r \in REQUESTS, ok \in BOOLEAN : Open(r, ok)
    \/ \E r \in REQUESTS, ok \in BOOLEAN : Dump(r, ok)
    \/ \E r \in REQUESTS : Close(r)
    \/ \E r \in REQUESTS : Return(r)

LoopSpec == Init /\ [][LoopNext]_vars

\* -------------------------------------------------------------- properties
Merged == last.op = "update" /\ last.write \in WRITE_OUTCOMES
BackingFile(name) == files[DATA_FILES(name)]
IsPrefix(p, text) == Len(p) <= Len(text) /\ p = SubSeq(text, 1, Len(p))

\* post is prev with the object patch merged in key by key.
IsKeyMerge(post, prev, patch) ==
    /\ post.t = "obj"
    /\ Cardinality(Keys(post.kv)) = Len(post.kv)
    /\ Keys(post.kv) = Keys(prev.kv) \cup Keys(patch.kv)
    /\ \A k \in Keys(patch.kv) : Lookup(post.kv, k) = Lookup(patch.kv, k)
    /\ \A k \in Keys(prev.kv) \ Keys(patch.kv) : Lookup(post.kv, k) = Lookup(prev.kv, k)

\* C1: an update request that names an unconfigured dataset is answered 404,
\* whatever its (well-formed) patch.
C1_UnconfiguredUpdateAnswered404 ==
    (last.op = "update" /\ last.name \notin DATA_NAMES
        /\ UpdateRequest_valid(last.patch))
    => last.status = 404

\* C2: after an update that returned success, the backing file of the dataset
\* parses, as load_data would parse it, to the dataset's in-memory value.
C2_FileReloadsToMemory ==
    (last.op = "update" /\ last.status = 200)
    => /\ Loadable(BackingFile(last.name))
       /\ LoadOne(BackingFile(last.name)) = data[last.name]

\* An update succeeds on a dataset whose file an earlier failed write had left
\* different from memory.
C2_Witness ==
    /\ last.op = "update" /\ last.status = 200 /\ nupdates = 2
    /\ pre.files[DATA_FILES(last.name)].exists
    /\ ~Loadable(pre.files[DATA_FILES(last.name)])
    /\ pre.data[last.name] # EmptyObj

\* C3: an update of an object dataset merges the patch key by key, and a
\* successful update returns the merged object.
C3_MappingMerge ==
    (Merged /\ last.name \in DOMAIN pre.data /\ pre.data[last.name].t = "obj")
    => /\ IsKeyMerge(data[last.name], pre.data[last.name], last.patch)
       /\ last.status = 200 => last.body = data[last.name]

\* A patch that overwrites "final", adds "quiz" and leaves "midterm" alone.
C3_Witness ==
    /\ Merged /\ last.status = 200 /\ last.name = "academic_deadlines"
    /\ pre.data[last.name] = OBJ_1 /\ last.patch = OBJ_PATCH
    /\ last.body = Obj(<< <<"midterm", "Oct 10">>, <<"final", "Dec 15">>,
                          <<"quiz", "Nov 2">> >>)

\* C4: an update request on an array dataset appends the elements of an array
\* patch one by one, and any other patch as one element.
C4_SequencePatchAppended ==
    (last.op = "update" /\ last.name \in DOMAIN pre.data
        /\ pre.data[last.name].t = "arr")
    => data[last.name].el =
          IF last.patch.t = "arr" THEN pre.data[last.name].el \o last.patch.el
          ELSE Append(pre.data[last.name].el, last.patch)

\* C5: when the write of an update fails the caller gets a 500, memory holds
\* the merged value, which a Get returns, and the file holds what it held
\* before or a part of the new text.
C5_WriteFailureKeepsMerge ==
    (Merged /\ last.write # "ok")
    => LET prev == pre.data[last.name]
           post == data[last.name]
           file == BackingFile(last.name)
       IN /\ last.status = 500
          /\ get_data(last.name) = [status |-> 200, body |-> post]
          /\ CASE prev.t = "obj" -> IsKeyMerge(post, prev, last.patch)
               [] prev.t = "arr" -> post = Arr(Append(prev.el, last.patch))
               [] OTHER -> post = prev
          /\ \/ file = pre.files[DATA_FILES(last.name)]
             \/ /\ file.exists
                /\ IsPrefix(file.text, json_dumps(post, 4))
                /\ file.text # json_dumps(post, 4)

\* A failed json.dump after a merge that changed the dataset.
C5_Witness ==
    /\ Merged /\ last.write = "dump_fail"
    /\ data[last.name] # pre.data[last.name]
    /\ BackingFile(last.name) # pre.files[DATA_FILES(last.name)]
    /\ BackingFile(last.name).text # <<>>

\* C6: the store holds exactly the configured names, a dataset whose file did
\* not load starts as {}, and the list operation returns the configured names
\* in configuration order.
C6_StoreHoldsConfiguredNames ==
    /\ DOMAIN data = DATA_NAMES
    /\ DOMAIN pre.data = DATA_NAMES
    /\ last.op = "startup" =>
          \A n \in DATA_NAMES : ~Loadable(BackingFile(n)) => data[n] = EmptyObj
    /\ last.op = "list" =>
          /\ last.status = 200
          /\ last.names = DATA_FILES_keys
          /\ { last.names[i] : i \in 1..Len(last.names) } = DOMAIN data

\* The names are listed after updates, in a run whose start found a file
\* missing and another one corrupt.
C6_Witness ==
    /\ last.op = "list" /\ nupdates >= 1
    /\ ~BackingFile("paper_recheck").exists
    /\ BackingFile("academic_deadlines").exists
    /\ ~Loadable(BackingFile("academic_deadlines"))

\* C7: Get answers an unconfigured name 404 without a value and a configured
\* name with its in-memory value, and changes neither memory nor files.
C7_GetIsPureRead ==
    last.op = "get" =>
        /\ last.name \in DATA_NAMES =>
              last.status = 200 /\ last.body = data[last.name]
        /\ last.name \notin DATA_NAMES =>
              last.status = 404 /\ last.body = NoValue
        /\ data = pre.data
        /\ files = pre.files

\* A Get of an unconfigured name after an update.
C7_Witness == last.op = "get" /\ last.name = UNCONFIGURED /\ nupdates >= 1

\* C8: with the API key set, a chat request always builds its context, and the
\* context is the header, one section per dataset in display order that
\* renders the dataset's current value, and the rules.
C8_ContextShowsLiveStore ==
    last.op = "chat" =>
        /\ XAI_API_KEY => last.context # <<>>
        /\ last.context # <<>> =>
              /\ Len(last.context) = Len(data_sections) + 2
              /\ Head(last.context) = CONTEXT_HEADER
              /\ last.context[Len(last.context)] = CONTEXT_RULES
              /\ \A i \in 1..Len(data_sections) :
                    /\ last.context[i + 1].title = data_sections[i][1]
                    /\ json_load(last.context[i + 1].text) =
                          [ok |-> TRUE, v |-> data[data_sections[i][2]],
                           next |-> Len(SkipWhitespace(last.context[i + 1].text)) + 1]

\* A context built after an update whose write failed, so that memory is
\* ahead of the disk, with a dataset degraded to {}.
C8_Witness ==
    /\ last.op = "chat" /\ last.context # <<>> /\ nupdates >= 1
    /\ data["academic_deadlines"] # LoadOne(BackingFile("academic_deadlines"))
    /\ data["paper_recheck"] = EmptyObj

\* C9: an update changes the value and the file of no dataset but the one it
\* names, and nothing at all when it names an unconfigured dataset.
C9_UpdateTouchesOneDataset ==
    last.op = "update" =>
        /\ \A n \in DATA_NAMES \ {last.name} :
              /\ data[n] = pre.data[n]
              /\ BackingFile(n) = pre.files[DATA_FILES(n)]
        /\ last.name \notin DATA_NAMES => data = pre.data /\ files = pre.files

\* An update of the array dataset that changed its value and its file.
C9_Witness ==
    /\ last.op = "update" /\ last.status = 200
    /\ last.name = "library_books_list"
    /\ data[last.name] # pre.data[last.name]
    /\ BackingFile(last.name) # pre.files[DATA_FILES(last.name)]


\* C10 as claimed: updates are not serialized, so that while the handler of
\* one update is between its lookup and its return, the handler of another
\* update that waits can start and run in between.
C10_UpdatesInterleave ==
    \A r1 \in REQUESTS, r2 \in REQUESTS :
        (r1 # r2 /\ tasks[r1].pc \in MID_HANDLER /\ tasks[r2].pc = "pending")
        => ENABLED Begin(r2)

RequestsOn(n) == { r \in REQUESTS : tasks[r].name = n /\ tasks[r].pc # "idle" }

\* C10 as amended: the event loop runs the update handlers one after the
\* other, so once every update of a dataset has returned success, the file
\* of the dataset parses to its in-memory value and that value holds the
\* patch of every one of them.
C10_UpdatesSerialized ==
    \A n \in DATA_NAMES :
        (RequestsOn(n) # {}
            /\ \A r \in RequestsOn(n) : tasks[r].pc = "done" /\ tasks[r].status = 200)
        => /\ Loadable(BackingFile(n))
           /\ LoadOne(BackingFile(n)) = data[n]
           /\ CASE pre.data[n].t = "obj" ->
                     /\ \A r \in RequestsOn(n) : Keys(tasks[r].patch.kv) \subseteq Keys(data[n].kv)
                     /\ \A k \in Keys(data[n].kv) :
                           \/ \E r \in RequestsOn(n) :
                                 /\ HasKey(tasks[r].patch.kv, k)
                                 /\ Lookup(tasks[r].patch.kv, k) = Lookup(data[n].kv, k)
                           \/ /\ HasKey(pre.data[n].kv, k)
                              /\ Lookup(pre.data[n].kv, k) = Lookup(data[n].kv, k)
                [] pre.data[n].t = "arr" ->
                     /\ Len(data[n].el) = Len(pre.data[n].el) + Cardinality(RequestsOn(n))
                     /\ \A r \in RequestsOn(n) :
                           \E i \in 1..Len(data[n].el) : data[n].el[i] = tasks[r].patch
                [] OTHER -> data[n] = pre.data[n]

\* Two updates of the object dataset with different patches have both
\* returned success.
C10_Witness ==
    /\ \A r \in REQUESTS : tasks[r].pc = "done" /\ tasks[r].status = 200
                              /\ tasks[r].name = "academic_deadlines"
    /\ \E r1 \in REQUESTS, r2 \in REQUESTS : tasks[r1].patch # tasks[r2].patch
    /\ pre.data["academic_deadlines"] = OBJ_1

====
